---- MODULE Spec2Model ----
(***************************************************************************)
(* DDE Linux 2.6 page allocation (arch/dde_kit/page_alloc.c): the DDE page *)
(* cache (a 1024-bucket hash of struct page pointers keyed by the page's   *)
(* virtual address) and the Linux page-allocation functions built on the   *)
(* DDE kit large-memory allocator.                                         *)
(***************************************************************************)
EXTENDS Integers, Sequences, FiniteSets, TLC

(***************************************************************************)
(* Bounds of the model                                                     *)
(***************************************************************************)
\* number of blocks the DDE kit allocator can hand out
NumBlocks == 2
\* number of struct page objects __alloc_pages / clients may create
MaxPages == 3
\* largest order passed by a caller
MaxOrder == 1
\* largest number of __free_pages calls a careless caller makes on one page
MaxFrees == 2
\* allocator requests followed within one alloc_large_system_hash call
MaxRequests == 11
\* pages a caller of SpecSized allocates
MaxSized == 1

(***************************************************************************)
(* Program constants                                                       *)
(***************************************************************************)
PAGE_SHIFT == 12
PAGE_SIZE == 2 ^ PAGE_SHIFT
DDE_PAGE_CACHE_SHIFT == 10
DDE_PAGE_CACHE_SIZE == 2 ^ DDE_PAGE_CACHE_SHIFT
DDE_PAGE_CACHE_MASK == DDE_PAGE_CACHE_SIZE - 1

\* gfp masks are bit sets; a mask is modelled as the set of its flag bits
GFP_DMA == {"__GFP_DMA"}
GFP_KERNEL == {"__GFP_WAIT", "__GFP_IO", "__GFP_FS"}
GFP_ATOMIC == {"__GFP_HIGH"}
\* the masks callers pass
GfpMasks == {GFP_KERNEL, GFP_DMA, GFP_KERNEL \cup GFP_DMA}

NULL == 0

\* a & PAGE_MASK, PAGE_MASK = ~(PAGE_SIZE - 1): clears the page-offset bits
AndPageMask(a) == a - (a % PAGE_SIZE)

\* a & DDE_PAGE_CACHE_MASK: keeps the low DDE_PAGE_CACHE_SHIFT bits
AndCacheMask(a) == a % DDE_PAGE_CACHE_SIZE

\* a hash that masks the address without discarding the page-offset bits
VIRT_TO_PAGEHASH_noshift(a) == AndCacheMask(a)

\* ((unsigned long)a >> PAGE_SHIFT) & DDE_PAGE_CACHE_MASK
VIRT_TO_PAGEHASH(a) == AndCacheMask(a \div (2 ^ PAGE_SHIFT))

Buckets == 0 .. (DDE_PAGE_CACHE_SIZE - 1)
Orders == 0 .. MaxOrder
PageIds == 1 .. MaxPages

\* the callers that run concurrently
Callers == {1, 2}

(***************************************************************************)
(* The DDE kit allocator hands out page-aligned blocks.  The page numbers  *)
(* of its blocks are chosen so that several share a bucket of the cache    *)
(* (page numbers equal modulo 1024), one falls into bucket 0 and blocks of *)
(* the largest order do not overlap.                                       *)
(***************************************************************************)
PoolPageNumbers == <<4, 1028, 1024, 2052, 8, 2048, 12, 3076>>
Pool == {PoolPageNumbers[i] * PAGE_SIZE : i \in 1 .. NumBlocks}

\* addresses of the memory clients hand in as pages themselves: two in one
\* bucket, one in another
ClientAddrs == {4 * PAGE_SIZE, 1028 * PAGE_SIZE, 5 * PAGE_SIZE}

\* sub-page offsets a caller may add to an address
Offsets == {0, 1, 16, PAGE_SIZE - 1}

\* the bytes of a page that the model observes, and the contents a page can
\* have when the allocator hands it out
SampleOffsets == {0, PAGE_SIZE - 1}
ZeroPage == [o \in SampleOffsets |-> 0]
DirtyPage == [o \in SampleOffsets |-> 255]
PageContents == {ZeroPage, DirtyPage}
NoContents == <<>>

VARIABLES
    pages,      \* struct page objects: pages[id] is the page's ->virtual
    npages,     \* number of struct page objects created so far
    cache,      \* dde_linux26_page_cache: the chain of entries (page ids, head first)
                \* of each bucket that has one; every other bucket is empty
    granted,    \* DDE kit allocator: the addresses of the blocks it has handed out
    raw,        \* addresses the caller holds from __get_free_pages / get_zeroed_page
    freed,      \* caller: freed[id] = number of __free_pages calls made on page id
    halted,     \* "run", or "assert" after a failed dde_kit_assert
    last,       \* the call executed by the latest step, with its return value
    calls,      \* the DDE kit allocator calls made by the latest step, in order
    freeing,    \* freeing[c]: the page whose __free_pages caller c is inside of,
                \* between free_pages and dde_linux26_page_cache_remove; 0 if none
    adding,     \* adding[c]: caller c's position inside dde_linux26_page_cache_add
    serial,     \* TRUE if the callers serialize their page cache operations
    lsh         \* the alloc_large_system_hash call in progress or completed

vars == <<pages, npages, cache, granted, raw, freed, halted, last, calls,
          freeing, adding, serial, lsh>>

\* the variables of the callers that are inside a function
inside == <<freeing, adding, serial, lsh>>

\* a call: function, address or page argument, return value, and the observed
\* bytes of the returned page at the moment of return
Call(op, arg, ret, bytes) ==
    [op |-> op, arg |-> arg, ret |-> ret, bytes |-> bytes]

ProviderCall(fn, arg, ret) == [fn |-> fn, arg |-> arg, ret |-> ret]

\* a caller that is not inside dde_linux26_page_cache_add
NotAdding == [pc |-> "idle", p |-> 0, first |-> <<>>]

\* no alloc_large_system_hash call has been made; reqs are the byte sizes the
\* call has asked the allocator for, out is <<*_hash_shift, *_hash_mask>> once
\* they are written
NoHashCall ==
    [pc |-> "idle", bucketsize |-> 0, numentries |-> 0, log2qty |-> 0, size |-> 0,
     table |-> NULL, reqs |-> <<>>, out |-> <<>>]

\* the state after dde_linux26_page_cache_init, before any call
Started ==
    /\ pages = [id \in PageIds |-> NULL]
    /\ npages = 0
    /\ cache = [b \in {} |-> <<>>]
    /\ granted = {}
    /\ raw = {}
    /\ freed = [id \in PageIds |-> 0]
    /\ halted = "run"
    /\ last = Call("init", 0, 0, NoContents)
    /\ calls = <<>>
    /\ freeing = [c \in Callers |-> 0]
    /\ adding = [c \in Callers |-> NotAdding]
    /\ lsh = NoHashCall

Init == Started /\ serial = FALSE

\* callers of the page cache functions that may or may not serialize them
InitRace == Started /\ serial \in BOOLEAN

(***************************************************************************)
(* The page cache                                                          *)
(***************************************************************************)

\* the chain of bucket b of the cache c
Chain(c, b) == IF b \in DOMAIN c THEN c[b] ELSE <<>>

\* the cache c with the chain of bucket b replaced
SetChain(c, b, chain) ==
    [x \in (IF chain = <<>> THEN DOMAIN c \ {b} ELSE DOMAIN c \cup {b}) |->
        IF x = b THEN chain ELSE c[x]]

\* a list insertion that appends the new entry to the bucket's chain
hlist_add_tail(c, hashval, p) ==
    SetChain(c, hashval, Append(Chain(c, hashval), p))

\* hlist_add_head: the new entry becomes the first of the bucket's chain
hlist_add_head(c, hashval, p) ==
    SetChain(c, hashval, <<p>> \o Chain(c, hashval))

\* a list deletion that also drops every entry behind the deleted node
hlist_del_rest(c, hashval, v) ==
    SetChain(c, hashval, SubSeq(Chain(c, hashval), 1, v - 1))

\* hlist_add_head, "first = h->first": the chain that starts at the first node
hlist_read_first(c, hashval) == Chain(c, hashval)

\* a head insertion that does not link the new node to the node read before
hlist_write_first_unlinked(c, hashval, p, first) ==
    SetChain(c, hashval, <<p>>)

\* hlist_add_head, "n->next = first; h->first = n": the new node, followed by
\* the chain read before, becomes the bucket's chain
hlist_write_first(c, hashval, p, first) ==
    SetChain(c, hashval, <<p>> \o first)

\* hlist_del of the node at position v of the bucket's chain
hlist_del(c, hashval, v) ==
    SetChain(c, hashval, SubSeq(Chain(c, hashval), 1, v - 1)
                           \o SubSeq(Chain(c, hashval), v + 1, Len(Chain(c, hashval))))

\* dde_linux26_page_cache_add(p), p->virtual = pg[p]
dde_linux26_page_cache_add(c, pg, p) ==
    hlist_add_head(c, VIRT_TO_PAGEHASH(pg[p]), p)

\* a scan that selects the first entry without comparing its address
remove_scan_any(chain, pg, va) == IF chain # <<>> THEN 1 ELSE 0

\* the hlist_for_each_entry loop of dde_linux26_page_cache_remove: "break" is
\* not governed by the "if", so the body runs for the first entry only; the
\* result is the position v of the node to delete, 0 for v = NULL
remove_scan(chain, pg, va) ==
    IF chain # <<>> /\ pg[Head(chain)] = AndPageMask(va) THEN 1 ELSE 0

\* dde_linux26_page_cache_remove(p), va = p->virtual
dde_linux26_page_cache_remove(c, pg, va) ==
    LET hashval == VIRT_TO_PAGEHASH(va)
        v == remove_scan(Chain(c, hashval), pg, va)
    IN  IF v # 0 THEN hlist_del(c, hashval, v) ELSE c

\* a scan that returns the first entry of the bucket without the exact match
lookup_scan_first(chain, pg, va) == IF chain = <<>> THEN NULL ELSE Head(chain)

\* the hlist_for_each_entry loop of dde_linux26_page_lookup
RECURSIVE lookup_scan(_, _, _)
lookup_scan(chain, pg, va) ==
    IF chain = <<>> THEN NULL
    ELSE IF pg[Head(chain)] = AndPageMask(va) THEN Head(chain)
    ELSE lookup_scan(Tail(chain), pg, va)

\* dde_linux26_page_lookup(va): the page found, NULL if none
dde_linux26_page_lookup(c, pg, va) ==
    lookup_scan(Chain(c, VIRT_TO_PAGEHASH(va)), pg, va)

(***************************************************************************)
(* The DDE kit allocator (external): dde_kit_large_malloc returns NULL or  *)
(* the address of a block that is not handed out; dde_kit_large_free takes *)
(* the address only and takes the whole block back.                        *)
(***************************************************************************)
MallocResults == {NULL} \cup (Pool \ granted)

dde_kit_large_malloc(g, p) == IF p = NULL THEN g ELSE g \cup {p}

dde_kit_large_free(g, addr) == g \ {addr}

\* a size computation that multiplies by the order instead of shifting
PageBytes_times(order) == PAGE_SIZE * order

\* PAGE_SIZE << order, the byte size of 2^order pages
PageBytes(order) == PAGE_SIZE * (2 ^ order)

\* a memset that stops one byte before the end of the page
memset_short(bytes) ==
    [o \in DOMAIN bytes |-> IF o < PAGE_SIZE - 1 THEN 0 ELSE bytes[o]]

\* memset((void *)p, 0, PAGE_SIZE) on a page holding bytes
memset_zero(bytes) ==
    [o \in DOMAIN bytes |-> IF o < PAGE_SIZE THEN 0 ELSE bytes[o]]

(***************************************************************************)
(* The page allocation functions                                           *)
(***************************************************************************)

\* dde_kit_assert(gfp_mask != GFP_DMA)
gfp_assert(gfp_mask) == gfp_mask # GFP_DMA

\* a call that stops at the failed assertion of __get_free_pages
AssertFailed(op) ==
    /\ halted' = "assert"
    /\ calls' = <<>>
    /\ last' = Call(op, 0, 0, NoContents)
    /\ UNCHANGED inside /\ UNCHANGED <<pages, npages, cache, granted, raw, freed>>

\* __get_free_pages(gfp_mask, order) called by the client
GetFreePages(gfp_mask, order) ==
    /\ halted = "run"
    /\ IF ~gfp_assert(gfp_mask)
       THEN AssertFailed("__get_free_pages")
       ELSE \E p \in MallocResults :
              /\ granted' = dde_kit_large_malloc(granted, p)
              /\ calls' = <<ProviderCall("dde_kit_large_malloc", PageBytes(order), p)>>
              /\ raw' = IF p = NULL THEN raw ELSE raw \cup {p}
              /\ last' = Call("__get_free_pages", 0, p, NoContents)
              /\ UNCHANGED inside /\ UNCHANGED <<pages, npages, cache, freed, halted>>

\* get_zeroed_page(gfp_mask); bytes is what the page holds when the
\* allocator hands it out
GetZeroedPage(gfp_mask) ==
    /\ halted = "run"
    /\ IF ~gfp_assert(gfp_mask)
       THEN AssertFailed("get_zeroed_page")
       ELSE \E p \in MallocResults, bytes \in PageContents :
              /\ granted' = dde_kit_large_malloc(granted, p)
              /\ calls' = <<ProviderCall("dde_kit_large_malloc", PageBytes(0), p)>>
              /\ raw' = IF p = NULL THEN raw ELSE raw \cup {p}
              /\ last' = Call("get_zeroed_page", 0, p,
                              IF p # NULL THEN memset_zero(bytes) ELSE NoContents)
              /\ UNCHANGED inside /\ UNCHANGED <<pages, npages, cache, freed, halted>>

\* a free_pages that also unregisters the address from the cache
FreeRawUntrack(addr, order) ==
    /\ halted = "run"
    /\ addr \in raw
    /\ granted' = dde_kit_large_free(granted, addr)
    /\ calls' = <<ProviderCall("dde_kit_large_free", addr, 0)>>
    /\ raw' = raw \ {addr}
    /\ cache' = dde_linux26_page_cache_remove(cache, pages, addr)
    /\ last' = Call("free_pages", addr, 0, NoContents)
    /\ UNCHANGED inside /\ UNCHANGED <<pages, npages, freed, halted>>

\* a free_pages that passes the byte length of the order to the allocator
FreeRawSized(addr, order) ==
    /\ halted = "run"
    /\ addr \in raw
    /\ granted' = dde_kit_large_free(granted, addr)
    /\ calls' = <<ProviderCall("dde_kit_large_free", addr, PageBytes(order))>>
    /\ raw' = raw \ {addr}
    /\ last' = Call("free_pages", addr, 0, NoContents)
    /\ UNCHANGED inside /\ UNCHANGED <<pages, npages, cache, freed, halted>>

\* free_pages(addr, order) called by the client on an address it holds
FreeRaw(addr, order) ==
    /\ halted = "run"
    /\ addr \in raw
    /\ granted' = dde_kit_large_free(granted, addr)
    /\ calls' = <<ProviderCall("dde_kit_large_free", addr, 0)>>
    /\ raw' = raw \ {addr}
    /\ last' = Call("free_pages", addr, 0, NoContents)
    /\ UNCHANGED inside /\ UNCHANGED <<pages, npages, cache, freed, halted>>

\* __alloc_pages(gfp_mask, order, zonelist)
AllocPages(gfp_mask, order) ==
    /\ halted = "run"
    /\ npages < MaxPages
    /\ IF ~gfp_assert(gfp_mask)
       THEN AssertFailed("__alloc_pages")
       ELSE \E p \in MallocResults :
              LET ret == npages + 1
                  pg == [pages EXCEPT ![ret] = p]
              IN  /\ granted' = dde_kit_large_malloc(granted, p)
                  /\ calls' = <<ProviderCall("dde_kit_large_malloc", PageBytes(order), p)>>
                  /\ pages' = pg
                  /\ npages' = ret
                  /\ cache' = dde_linux26_page_cache_add(cache, pg, ret)
                  /\ last' = Call("__alloc_pages", 0, ret, NoContents)
                  /\ UNCHANGED inside /\ UNCHANGED <<raw, freed, halted>>

\* __free_pages(page, order): free_pages(page->virtual, order), then
\* dde_linux26_page_cache_remove(page)
free_pages_of(page, order) ==
    /\ halted = "run"
    /\ granted' = dde_kit_large_free(granted, pages[page])
    /\ calls' = <<ProviderCall("dde_kit_large_free", pages[page], 0)>>
    /\ cache' = dde_linux26_page_cache_remove(cache, pages, pages[page])
    /\ freed' = [freed EXCEPT ![page] = @ + 1]
    /\ last' = Call("__free_pages", page, 0, NoContents)
    /\ UNCHANGED inside /\ UNCHANGED <<pages, npages, raw, halted>>

\* __free_pages on a page the caller has not freed before
FreePages(page, order) ==
    /\ page \in 1 .. npages
    /\ freed[page] = 0
    /\ free_pages_of(page, order)

\* __free_pages on a page the caller has freed already
FreePagesAgain(page, order) ==
    /\ page \in 1 .. npages
    /\ freed[page] >= 1
    /\ freed[page] < MaxFrees
    /\ free_pages_of(page, order)

\* __alloc_pages called by a caller that allocates MaxSized pages at most
AllocPagesSized(gfp_mask, order) ==
    /\ npages < MaxSized
    /\ AllocPages(gfp_mask, order)

\* __alloc_pages called by caller c, which is not inside __free_pages
AllocPagesBy(c, gfp_mask, order) ==
    /\ freeing[c] = 0
    /\ AllocPages(gfp_mask, order)

\* first step of __free_pages(page, order) run by caller c:
\* free_pages((unsigned long)page->virtual, order)
FreeRelease(c, page, order) ==
    /\ halted = "run"
    /\ freeing[c] = 0
    /\ page \in 1 .. npages
    /\ freed[page] = 0
    /\ \A c2 \in Callers : freeing[c2] # page
    /\ granted' = dde_kit_large_free(granted, pages[page])
    /\ calls' = <<ProviderCall("dde_kit_large_free", pages[page], 0)>>
    /\ freeing' = [freeing EXCEPT ![c] = page]
    /\ last' = Call("free_pages", pages[page], 0, NoContents)
    /\ UNCHANGED <<pages, npages, cache, raw, freed, halted, adding, serial, lsh>>

\* second step of __free_pages(page, order) run by caller c:
\* dde_linux26_page_cache_remove(page), then the return
FreeRemove(c) ==
    /\ halted = "run"
    /\ freeing[c] # 0
    /\ cache' = dde_linux26_page_cache_remove(cache, pages, pages[freeing[c]])
    /\ freed' = [freed EXCEPT ![freeing[c]] = @ + 1]
    /\ freeing' = [freeing EXCEPT ![c] = 0]
    /\ calls' = <<>>
    /\ last' = Call("__free_pages", freeing[c], 0, NoContents)
    /\ UNCHANGED <<pages, npages, granted, raw, halted, adding, serial, lsh>>

\* ilog2(n): the position of the highest bit set in n
RECURSIVE ilog2(_)
ilog2(n) == IF n <= 1 THEN 0 ELSE 1 + ilog2(n \div 2)

\* for (order = 0; ((1UL << order) << PAGE_SHIFT) < size; order++);
RECURSIVE order_loop(_, _)
order_loop(order, size) ==
    IF (2 ^ order) * PAGE_SIZE < size THEN order_loop(order + 1, size) ELSE order

\* --log2qty on an unsigned long of 32 bits: 0 wraps to ULONG_MAX. Values
\* from 2^31 on are held as value - 2^32, so that ULONG_MAX is -1
dec_ulong(x) == IF x = -2147483647 - 1 THEN 2147483647 ELSE x - 1

\* (1 << log2qty) - 1 stored in the unsigned int *_hash_mask: defined for
\* shift counts below 31; for the other counts the shift is undefined, and
\* the results are those of a shift that gives 0 (the mask 2^32 - 1, held as
\* -1), of a shift by the count modulo 32, and of a shift that is not done
hash_masks(log2qty) ==
    IF log2qty \in 0 .. 30 THEN {(2 ^ log2qty) - 1}
    ELSE LET count == log2qty % 32
         IN  {-1, IF count = 31 THEN 2147483647 ELSE (2 ^ count) - 1, 0}

\* the numbers of entries and the bucket sizes callers ask for
HashEntries == {0, 1, 2, 3, 4}
BucketSizes == {1, PAGE_SIZE, 2 * PAGE_SIZE}

\* alloc_large_system_hash(tablename, bucketsize, numentries, ...) from its
\* entry to the do loop
HashEnter(bucketsize, numentries) ==
    /\ halted = "run"
    /\ lsh.pc \in {"idle", "returned"}
    /\ LET n == IF numentries = 0 THEN 1024 ELSE numentries
           log2qty == ilog2(n)
       IN  lsh' = [pc |-> "loop", bucketsize |-> bucketsize, numentries |-> numentries,
                   log2qty |-> log2qty, size |-> bucketsize * (2 ^ log2qty),
                   table |-> NULL, reqs |-> <<>>, out |-> <<>>]
    /\ calls' = <<>>
    /\ last' = Call("alloc_large_system_hash", 0, 0, NoContents)
    /\ UNCHANGED <<pages, npages, cache, granted, raw, freed, halted,
                   freeing, adding, serial>>

\* one pass of the do loop of alloc_large_system_hash: the order for size,
\* __get_free_pages(GFP_ATOMIC, order), and the loop condition
\* !table && size > PAGE_SIZE && --log2qty
HashRequest ==
    /\ halted = "run"
    /\ lsh.pc = "loop"
    /\ Len(lsh.reqs) < MaxRequests
    /\ gfp_assert(GFP_ATOMIC)
    /\ \E p \in MallocResults :
         LET order == order_loop(0, lsh.size)
             decremented == p = NULL /\ lsh.size > PAGE_SIZE
             log2qty == IF decremented THEN dec_ulong(lsh.log2qty) ELSE lsh.log2qty
             again == decremented /\ log2qty # 0
         IN  /\ granted' = dde_kit_large_malloc(granted, p)
             /\ calls' = <<ProviderCall("dde_kit_large_malloc", PageBytes(order), p)>>
             /\ raw' = IF p = NULL THEN raw ELSE raw \cup {p}
             /\ lsh' = [lsh EXCEPT !.table = p,
                                   !.log2qty = log2qty,
                                   !.reqs = Append(@, PageBytes(order)),
                                   !.pc = IF again THEN "loop" ELSE "after"]
    /\ UNCHANGED <<pages, npages, cache, freed, halted, last, freeing, adding, serial>>

\* alloc_large_system_hash after the loop: the panic when there is no
\* table, else the results written to *_hash_shift and *_hash_mask and the
\* return of the table
HashFinish ==
    /\ halted = "run"
    /\ lsh.pc = "after"
    /\ calls' = <<>>
    /\ IF lsh.table = NULL
       THEN /\ halted' = "panic"
            /\ lsh' = [lsh EXCEPT !.pc = "panic"]
            /\ last' = Call("panic", 0, 0, NoContents)
       ELSE /\ \E mask \in hash_masks(lsh.log2qty) :
                 lsh' = [lsh EXCEPT !.pc = "returned", !.out = <<lsh.log2qty, mask>>]
            /\ last' = Call("alloc_large_system_hash", 0, lsh.table, NoContents)
            /\ UNCHANGED halted
    /\ UNCHANGED <<pages, npages, cache, granted, raw, freed, freeing, adding, serial>>

\* dde_linux26_page_cache_add(p) called by a client on a page it built itself,
\* with p->virtual = va
CacheAdd(va) ==
    /\ halted = "run"
    /\ npages < MaxPages
    /\ LET p == npages + 1
           pg == [pages EXCEPT ![p] = va]
       IN  /\ pages' = pg
           /\ npages' = p
           /\ cache' = dde_linux26_page_cache_add(cache, pg, p)
           /\ last' = Call("dde_linux26_page_cache_add", va, 0, NoContents)
    /\ calls' = <<>>
    /\ UNCHANGED inside /\ UNCHANGED <<granted, raw, freed, halted>>

\* caller c enters dde_linux26_page_cache_add(p), p->virtual = va, and runs
\* it up to the read of the bucket head in hlist_add_head; callers that
\* serialize wait until no other caller is inside the function
AddRead(c, va) ==
    /\ halted = "run"
    /\ npages < MaxPages
    /\ adding[c].pc = "idle"
    /\ serial => \A c2 \in Callers : adding[c2].pc = "idle"
    /\ LET p == npages + 1
       IN  /\ pages' = [pages EXCEPT ![p] = va]
           /\ npages' = p
           /\ adding' = [adding EXCEPT ![c] =
                  [pc |-> "write", p |-> p,
                   first |-> hlist_read_first(cache, VIRT_TO_PAGEHASH(va))]]
    /\ UNCHANGED <<cache, granted, raw, freed, halted, last, calls, freeing, serial, lsh>>

\* caller c runs the rest of dde_linux26_page_cache_add: the write of the
\* bucket head in hlist_add_head, and the return
AddWrite(c) ==
    /\ halted = "run"
    /\ adding[c].pc = "write"
    /\ cache' = hlist_write_first(cache, VIRT_TO_PAGEHASH(pages[adding[c].p]),
                                  adding[c].p, adding[c].first)
    /\ adding' = [adding EXCEPT ![c] = NotAdding]
    /\ last' = Call("dde_linux26_page_cache_add", pages[adding[c].p], 0, NoContents)
    /\ calls' = <<>>
    /\ UNCHANGED <<pages, npages, granted, raw, freed, halted, freeing, serial, lsh>>

\* dde_linux26_page_cache_remove(p) called by a client, with p->virtual = va
CacheRemove(va) ==
    /\ halted = "run"
    /\ cache' = dde_linux26_page_cache_remove(cache, pages, va)
    /\ last' = Call("dde_linux26_page_cache_remove", va, 0, NoContents)
    /\ calls' = <<>>
    /\ UNCHANGED inside /\ UNCHANGED <<pages, npages, granted, raw, freed, halted>>

\* dde_linux26_page_lookup(va) called by a client
Lookup(va) ==
    /\ halted = "run"
    /\ last' = Call("dde_linux26_page_lookup", va,
                    dde_linux26_page_lookup(cache, pages, va), NoContents)
    /\ calls' = <<>>
    /\ UNCHANGED inside /\ UNCHANGED <<pages, npages, cache, granted, raw, freed, halted>>

\* the addresses clients pass to remove and lookup
QueryAddrs == {a + o : a \in ClientAddrs, o \in {0, 16}}

(***************************************************************************)
(* Specifications                                                          *)
(***************************************************************************)

\* one caller of __alloc_pages and __free_pages that frees each page once
Next ==
    \/ \E gfp_mask \in GfpMasks, order \in Orders : AllocPages(gfp_mask, order)
    \/ \E page \in PageIds, order \in Orders : FreePages(page, order)

Spec == Init /\ [][Next]_vars

\* one caller that also uses the functions that return and take addresses
NextRaw ==
    \/ \E gfp_mask \in GfpMasks, order \in Orders : AllocPages(gfp_mask, order)
    \/ \E page \in PageIds, order \in Orders : FreePages(page, order)
    \/ \E gfp_mask \in GfpMasks, order \in Orders : GetFreePages(gfp_mask, order)
    \/ \E gfp_mask \in GfpMasks : GetZeroedPage(gfp_mask)
    \/ \E addr \in Pool, order \in Orders : FreeRaw(addr, order)

SpecRaw == Init /\ [][NextRaw]_vars

\* one caller of the four functions that take an order
NextSized ==
    \/ \E gfp_mask \in GfpMasks, order \in Orders : AllocPagesSized(gfp_mask, order)
    \/ \E page \in PageIds, order \in Orders : FreePages(page, order)
    \/ \E gfp_mask \in GfpMasks, order \in Orders : GetFreePages(gfp_mask, order)
    \/ \E addr \in Pool, order \in Orders : FreeRaw(addr, order)

SpecSized == Init /\ [][NextSized]_vars

\* a caller that may also pass a page to __free_pages again
NextRefree ==
    \/ \E gfp_mask \in GfpMasks, order \in Orders : AllocPages(gfp_mask, order)
    \/ \E page \in PageIds, order \in Orders : FreePages(page, order)
    \/ \E page \in PageIds, order \in Orders : FreePagesAgain(page, order)

SpecRefree == Init /\ [][NextRefree]_vars

\* a client of the page cache functions
NextCache ==
    \/ \E va \in ClientAddrs : CacheAdd(va)
    \/ \E va \in QueryAddrs : CacheRemove(va)
    \/ \E va \in QueryAddrs : Lookup(va)

SpecCache == Init /\ [][NextCache]_vars

\* two callers of __alloc_pages and __free_pages that are not serialized: the
\* allocator calls and the page cache functions are atomic, __free_pages is
\* not
NextConc ==
    \/ \E c \in Callers, gfp_mask \in GfpMasks, order \in Orders :
         AllocPagesBy(c, gfp_mask, order)
    \/ \E c \in Callers, page \in PageIds, order \in Orders :
         FreeRelease(c, page, order)
    \/ \E c \in Callers : FreeRemove(c)

SpecConc == Init /\ [][NextConc]_vars

\* two callers of dde_linux26_page_cache_add whose reads and writes of the
\* bucket head interleave unless they serialize
NextRace ==
    \/ \E c \in Callers, va \in ClientAddrs : AddRead(c, va)
    \/ \E c \in Callers : AddWrite(c)

SpecRace == InitRace /\ [][NextRace]_vars

\* callers of alloc_large_system_hash
NextHash ==
    \/ \E bucketsize \in BucketSizes, numentries \in HashEntries :
         HashEnter(bucketsize, numentries)
    \/ HashRequest
    \/ HashFinish

SpecHash == Init /\ [][NextHash]_vars

(***************************************************************************)
(* Properties                                                              *)
(***************************************************************************)

\* the entries of the cache: <<bucket, position in the chain>>
Entries(c) == UNION {{<<b, i>> : i \in DOMAIN c[b]} : b \in DOMAIN c}

\* the page an entry points to
EntryPage(c, e) == c[e[1]][e[2]]

\* the entries of the cache whose page has the virtual address a
EntriesOf(c, pg, a) == {e \in Entries(c) : pg[EntryPage(c, e)] = a}

\* pages that the allocator granted memory for and that were not passed to
\* __free_pages
Live(d) == d \in 1 .. npages /\ pages[d] # NULL /\ freed[d] = 0

\* every page that has memory and was not passed to __free_pages by any
\* caller is the page lookup returns for its address
LiveFound ==
    \A d \in 1 .. npages :
        (Live(d) /\ \A c \in Callers : freeing[c] # d)
        => dde_linux26_page_lookup(cache, pages, pages[d]) = d

\* lookup returns no page whose __free_pages has returned
NoCompletedFound ==
    \A va \in Pool :
        LET r == dde_linux26_page_lookup(cache, pages, va)
        IN  r # NULL => freed[r] = 0

\* pages whose dde_linux26_page_cache_add has returned
Added(p) == p \in 1 .. npages /\ \A c \in Callers : adding[c].p # p

\* the latest step made a request that the allocator denied
Denied(cs) == cs # <<>> /\ cs[1].fn = "dde_kit_large_malloc" /\ cs[1].ret = NULL

\* C1 (Post-free invisibility): when __free_pages(d, order) of a page d that
\* holds memory of the allocator has returned, dde_linux26_page_lookup of
\* d's virtual address returns NULL, whatever else is in d's bucket.
PostFreeInvisible ==
    [][(last'.op = "__free_pages" /\ pages[last'.arg] # NULL)
        => dde_linux26_page_lookup(cache', pages', pages[last'.arg]) = NULL]_vars

\* C2 (Failure propagation): when dde_kit_large_malloc returns NULL,
\* __alloc_pages and __get_free_pages return NULL, no struct page is created
\* and the cache is left as it was.
FailurePropagation ==
    [][(last'.op \in {"__alloc_pages", "__get_free_pages"} /\ Denied(calls'))
        => (last'.ret = NULL /\ npages' = npages /\ cache' = cache)]_vars

\* C3 (Cache key uniqueness): the cache never holds two entries for the same
\* page-aligned virtual address, counted over all chains of all buckets.
CacheKeyUnique ==
    \A a \in Pool \cup {NULL} : Cardinality(EntriesOf(cache, pages, a)) <= 1

\* C4 (Round-trip lookup): every page returned by a successful __alloc_pages
\* and not yet passed to __free_pages is the result of
\* dde_linux26_page_lookup of its virtual address.
RoundTripLookup ==
    \A d \in PageIds :
        Live(d) => dde_linux26_page_lookup(cache, pages, pages[d]) = d

\* C4 witness: a live page is found although its bucket also holds another
\* live page and the entry of an earlier, already freed page that had the
\* same address.
RoundTripWitness ==
    \E d, e, f \in 1 .. npages :
        /\ Live(d) /\ Live(f) /\ f # d
        /\ VIRT_TO_PAGEHASH(pages[f]) = VIRT_TO_PAGEHASH(pages[d])
        /\ freed[e] = 1 /\ pages[e] = pages[d]
        /\ \E x \in Entries(cache) : EntryPage(cache, x) = e
        /\ dde_linux26_page_lookup(cache, pages, pages[d]) = d

\* C5 (Lookup exactness): dde_linux26_page_lookup(va) returns NULL or a page
\* that has an entry in the cache and whose virtual address is va & PAGE_MASK,
\* never the page of another address of the same bucket, and it returns NULL
\* when no entry has the masked address.
LookupExact ==
    /\ \A va \in QueryAddrs :
         LET r == dde_linux26_page_lookup(cache, pages, va)
         IN  /\ \/ r = NULL
                \/ /\ \E e \in Entries(cache) : EntryPage(cache, e) = r
                   /\ pages[r] = AndPageMask(va)
             /\ EntriesOf(cache, pages, AndPageMask(va)) = {} => r = NULL
    /\ last.op = "dde_linux26_page_lookup"
         => (last.ret = NULL \/ pages[last.ret] = AndPageMask(last.arg))

\* C5 witness: a lookup has returned a page that is not the first entry of
\* its bucket, the first entry being the page of another address.
LookupExactWitness ==
    /\ last.op = "dde_linux26_page_lookup"
    /\ last.ret # NULL
    /\ LET chain == Chain(cache, VIRT_TO_PAGEHASH(last.arg))
       IN  /\ Len(chain) >= 2
           /\ Head(chain) # last.ret
           /\ pages[Head(chain)] # pages[last.ret]

\* C6 (Page-boundary insensitivity): for a live page d and an offset o below
\* PAGE_SIZE, dde_linux26_page_lookup(d->virtual + o) returns d, and the
\* bucket of d->virtual + o is the bucket of d->virtual.
PageBoundaryInsensitive ==
    \A d \in PageIds : \A o \in Offsets :
        Live(d) =>
            /\ dde_linux26_page_lookup(cache, pages, pages[d] + o) = d
            /\ VIRT_TO_PAGEHASH(pages[d] + o) = VIRT_TO_PAGEHASH(pages[d])

\* C6 witness: a live page that is not the first entry of its bucket is found
\* by a lookup of the last byte of its page.
PageBoundaryWitness ==
    \E d \in 1 .. npages :
        /\ Live(d)
        /\ Head(Chain(cache, VIRT_TO_PAGEHASH(pages[d]))) # d
        /\ dde_linux26_page_lookup(cache, pages, pages[d] + (PAGE_SIZE - 1)) = d

\* C7 (Lenient remove): dde_linux26_page_cache_remove raises no error, never
\* deletes or reorders an entry whose address differs from the masked address
\* it was called with, changes nothing when no entry has that address, and
\* leaves the result of lookup for every other address as it was.
LenientRemove ==
    [][last'.op = "dde_linux26_page_cache_remove" =>
        LET key == AndPageMask(last'.arg)
        IN  /\ halted' = "run"
            /\ pages' = pages
            /\ \A b \in Buckets :
                 SelectSeq(Chain(cache', b), LAMBDA p : pages[p] # key)
                   = SelectSeq(Chain(cache, b), LAMBDA p : pages[p] # key)
            /\ EntriesOf(cache, pages, key) = {} => cache' = cache
            /\ \A a \in ClientAddrs :
                 a # key => dde_linux26_page_lookup(cache', pages', a)
                              = dde_linux26_page_lookup(cache, pages, a)]_vars

\* C7 witness: remove was called for the address of a page that was inserted
\* and has no entry any more, while the page of another address of the same
\* bucket and a page of another bucket are still found.
LenientRemoveWitness ==
    /\ last.op = "dde_linux26_page_cache_remove"
    /\ EntriesOf(cache, pages, AndPageMask(last.arg)) = {}
    /\ \E a, b, c \in 1 .. npages :
         /\ pages[a] = AndPageMask(last.arg)
         /\ pages[b] # pages[a]
         /\ VIRT_TO_PAGEHASH(pages[b]) = VIRT_TO_PAGEHASH(pages[a])
         /\ VIRT_TO_PAGEHASH(pages[c]) # VIRT_TO_PAGEHASH(pages[a])
         /\ dde_linux26_page_lookup(cache, pages, pages[b]) = b
         /\ dde_linux26_page_lookup(cache, pages, pages[c]) = c

\* C8 (Exactly one release per allocation): every dde_kit_large_free the
\* functions make is for a block the allocator has handed out and has not
\* taken back yet, also when a page is passed to __free_pages again or comes
\* from a denied request; and once every page has been freed, no block is
\* left handed out.
OneReleasePerAllocation ==
    [][/\ \A i \in DOMAIN calls' :
            calls'[i].fn = "dde_kit_large_free" => calls'[i].arg \in granted
       /\ (\A d \in 1 .. npages' : freed'[d] >= 1) => granted' = {}]_vars

\* C9 (Memory-class rejection): an allocation call whose gfp mask has the
\* DMA flag set, alone or with other flags, fails the assertion before the
\* allocator is called and adds no cache entry.
MemoryClassRejected ==
    [][\A gfp_mask \in GfpMasks :
         (/\ GFP_DMA \subseteq gfp_mask
          /\ \/ \E order \in Orders : AllocPages(gfp_mask, order)
             \/ \E order \in Orders : GetFreePages(gfp_mask, order)
             \/ GetZeroedPage(gfp_mask))
         => (halted' = "assert" /\ calls' = <<>> /\ cache' = cache)]_vars

\* C10 (Raw operations bypass the cache): __get_free_pages, get_zeroed_page
\* and free_pages(addr, order) leave every bucket as it was, whether they
\* succeed or fail; the lookup of an address obtained from them returns NULL
\* unless an entry with that page-aligned address is in the cache.
RawBypassesCache ==
    [][last'.op \in {"__get_free_pages", "get_zeroed_page", "free_pages"} =>
        /\ cache' = cache
        /\ (/\ last'.op # "free_pages"
            /\ last'.ret # NULL
            /\ EntriesOf(cache', pages', AndPageMask(last'.ret)) = {})
           => dde_linux26_page_lookup(cache', pages', last'.ret) = NULL]_vars

\* C10 witness: __get_free_pages has returned an address of a bucket that
\* holds an entry, and the lookup of the address finds nothing.
RawBypassWitness ==
    /\ last.op = "__get_free_pages"
    /\ last.ret # NULL
    /\ Chain(cache, VIRT_TO_PAGEHASH(last.ret)) # <<>>
    /\ dde_linux26_page_lookup(cache, pages, last.ret) = NULL

\* C11 (Order sizing): every call of __alloc_pages or __get_free_pages that
\* passes the assertion makes exactly one allocator call, a
\* dde_kit_large_malloc of PAGE_SIZE * 2^order bytes, for every order:
\* 4096 bytes for order 0 and 32768 bytes for order 3.
OrderSizing ==
    [][(last'.op \in {"__alloc_pages", "__get_free_pages"} /\ halted' = "run")
       => /\ PageBytes(0) = 4096
          /\ PageBytes(3) = 32768
          /\ \A gfp_mask \in GfpMasks, order \in Orders :
               (/\ gfp_assert(gfp_mask)
                /\ AllocPages(gfp_mask, order) \/ GetFreePages(gfp_mask, order))
               => /\ Len(calls') = 1
                  /\ calls'[1].fn = "dde_kit_large_malloc"
                  /\ calls'[1].arg = 4096 * (2 ^ order)]_vars

\* C11 witness: __alloc_pages with order 1 was granted a block it asked
\* 8192 bytes for, and __get_free_pages was called before with another block
\* still held.
OrderSizingWitness ==
    /\ last.op = "__alloc_pages"
    /\ Len(calls) = 1
    /\ calls[1].arg = 8192
    /\ calls[1].ret \in Pool
    /\ raw # {}

\* C12 (Zero-fill): get_zeroed_page makes one dde_kit_large_malloc of
\* PAGE_SIZE bytes and returns its result; when a block is granted, the
\* bytes of the page are all zero at return, whatever they were before; when
\* the request is denied, the result is 0 and no byte is written.
ZeroFill ==
    (last.op = "get_zeroed_page" /\ halted = "run") =>
        /\ calls = <<ProviderCall("dde_kit_large_malloc", 4096, last.ret)>>
        /\ last.ret # NULL =>
              /\ DOMAIN last.bytes = SampleOffsets
              /\ \A o \in SampleOffsets : last.bytes[o] = 0
        /\ last.ret = NULL => last.bytes = NoContents

\* C12 witness: get_zeroed_page returned a granted page whose first and
\* last byte are zero.
ZeroFillWitness ==
    /\ last.op = "get_zeroed_page"
    /\ last.ret \in Pool
    /\ last.ret \in raw
    /\ last.bytes[0] = 0
    /\ last.bytes[PAGE_SIZE - 1] = 0

\* C13 (Remove scans the whole bucket): when the bucket of the address holds
\* an entry whose page has the address remove was called with, rounded down
\* to its page, remove deletes the first such entry of the chain, wherever it
\* stands, and leaves every other entry in place and in order.
RemoveScansBucket ==
    [][\A va \in QueryAddrs :
         (CacheRemove(va) /\ EntriesOf(cache, pages, AndPageMask(va)) # {})
         => LET hashval == VIRT_TO_PAGEHASH(va)
                chain == Chain(cache, hashval)
                hit(i) == pages[chain[i]] = AndPageMask(va)
                v == CHOOSE i \in DOMAIN chain :
                       hit(i) /\ \A j \in 1 .. (i - 1) : ~hit(j)
            IN  /\ Chain(cache', hashval)
                     = SubSeq(chain, 1, v - 1) \o SubSeq(chain, v + 1, Len(chain))
                /\ \A b \in Buckets \ {hashval} :
                     Chain(cache', b) = Chain(cache, b)]_vars

\* C14 (free_pages never unregisters another caller's live descriptor): with
\* two callers whose __free_pages calls interleave with the other caller's
\* calls, every page that __alloc_pages returned with memory and that was not
\* passed to __free_pages is the page lookup returns for its address, and
\* lookup never returns a page whose __free_pages has completed.
LiveStaysRegistered == LiveFound /\ NoCompletedFound

AllocFreeIdentity ==
    [][/\ (last'.op = "__alloc_pages" /\ halted' = "run" /\ pages'[last'.ret] # NULL)
          => dde_linux26_page_cache_remove(cache', pages', pages'[last'.ret]) = cache
       /\ \A page \in PageIds, order \in Orders :
            LET hashval == VIRT_TO_PAGEHASH(pages[page])
            IN  (/\ FreePages(page, order)
                 /\ Chain(cache, hashval) # <<>>
                 /\ Head(Chain(cache, hashval)) = page)
                => \A b \in DOMAIN cache \cup DOMAIN cache' :
                     Chain(cache', b) = IF b = hashval THEN Tail(Chain(cache, b))
                                        ELSE Chain(cache, b)]_vars

\* C17 witness: the page allocated last, with memory, was passed to
\* __free_pages and has no entry any more, while an older page of the same
\* bucket is still found.
AllocFreeWitness ==
    /\ last.op = "__free_pages"
    /\ last.arg = npages
    /\ pages[npages] # NULL
    /\ \A e \in Entries(cache) : EntryPage(cache, e) # npages
    /\ \E d \in 1 .. (npages - 1) :
         /\ VIRT_TO_PAGEHASH(pages[d]) = VIRT_TO_PAGEHASH(pages[npages])
         /\ dde_linux26_page_lookup(cache, pages, pages[d]) = d

\* C15 (Unserialized access is a data race), serialized half: when the
\* callers serialize dde_linux26_page_cache_add, every page whose insertion
\* has returned has an entry in the chain of its bucket and lookup of its
\* address finds a page of that address.
SerializedInsertsKept ==
    serial =>
        \A p \in 1 .. npages :
            Added(p) =>
                /\ \E e \in Entries(cache) :
                     e[1] = VIRT_TO_PAGEHASH(pages[p]) /\ EntryPage(cache, e) = p
                /\ dde_linux26_page_lookup(cache, pages, pages[p]) # NULL
                /\ pages[dde_linux26_page_lookup(cache, pages, pages[p])] = pages[p]

\* C15 witness, unserialized half: two callers ran dde_linux26_page_cache_add
\* on the same bucket without serialization, both calls have returned, one
\* of the two pages has an entry and the other has none and is not found by
\* lookup.
LostInsertWitness ==
    /\ ~serial
    /\ npages = 2
    /\ Added(1) /\ Added(2)
    /\ VIRT_TO_PAGEHASH(pages[1]) = VIRT_TO_PAGEHASH(pages[2])
    /\ \E p, q \in {1, 2} :
         /\ p # q
         /\ Chain(cache, VIRT_TO_PAGEHASH(pages[p])) = <<q>>
         /\ dde_linux26_page_lookup(cache, pages, pages[p]) = NULL

\* C18 (Large-hash sizing retries shrink): within one call of
\* alloc_large_system_hash every request that follows a denied request asks
\* the allocator for strictly fewer bytes than the request before it.
RetriesShrink ==
    \A i \in 1 .. (Len(lsh.reqs) - 1) : lsh.reqs[i + 1] < lsh.reqs[i]

\* C19 (Large-hash sizing aborts on exhaustion): for every numentries and
\* bucketsize, while the allocator has denied every request of the call, the
\* call has made at most ilog2(numentries) + 1 requests (numentries 0 counts
\* as 1024); a call that leaves the loop without a table ends in the panic,
\* never returns, and does not write *_hash_shift or *_hash_mask.
AbortsOnExhaustion ==
    LET n == IF lsh.numentries = 0 THEN 1024 ELSE lsh.numentries
    IN  /\ (lsh.pc # "idle" /\ lsh.table = NULL)
           => /\ Len(lsh.reqs) <= ilog2(n) + 1
              /\ lsh.pc # "returned"
              /\ lsh.out = <<>>
        /\ lsh.pc = "panic" => (halted = "panic" /\ lsh.table = NULL)

\* C20 (Large-hash sizing covers the request), first half: when the first
\* request of a call with numentries >= 1 is granted, it asked for
\* PAGE_SIZE << order bytes with the smallest order for which this is at
\* least numentries * bucketsize.
FirstRequestCovers ==
    (Len(lsh.reqs) = 1 /\ lsh.table # NULL /\ lsh.numentries >= 1)
    => LET need == lsh.numentries * lsh.bucketsize
           covers(k) == PAGE_SIZE * (2 ^ k) >= need
           order == CHOOSE k \in 0 .. 18 : covers(k) /\ \A j \in 0 .. (k - 1) : ~covers(j)
       IN  lsh.reqs[1] = PAGE_SIZE * (2 ^ order)

\* C20, second half: the shift s and the mask m a call reports satisfy
\* m = 2^s - 1, and the granted table has at least bucketsize << s bytes.
ReportedShiftMask ==
    lsh.pc = "returned"
    => /\ lsh.out[1] \in 0 .. 30
       /\ lsh.out[2] = (2 ^ lsh.out[1]) - 1
       /\ lsh.reqs[Len(lsh.reqs)] >= lsh.bucketsize * (2 ^ lsh.out[1])

\* C20 (Large-hash sizing covers the request): both halves.
CoversRequest == FirstRequestCovers /\ ReportedShiftMask

====
